---- MODULE Spec2Model ----
(***************************************************************************)
(* Model of the parser queue (src/api/parser/src/parser-queue.js): the     *)
(* passes started by startParserQueue and by the queue's 'drained' event,  *)
(* the per-feed updateFeed / addFeed tasks that processFeeds runs          *)
(* concurrently, and the 'failed' handler that invalidates a feed.         *)
(*                                                                         *)
(* The feed store (./data/feed) and the job queue (./feed/queue) are not   *)
(* part of the sources; they are modelled from their contracts.  Every     *)
(* action is one turn of the event loop: the continuation that runs when   *)
(* an awaited call returns, up to the next await.  A store or queue        *)
(* operation takes effect in the step that delivers its result.            *)
(***************************************************************************)
EXTENDS Naturals, Sequences, FiniteSets

VARIABLES
    store,      \* the feed store: the sequence of persisted Feed records
    queue,      \* the job queue: the feed ids that have a waiting job
    passes,     \* one record per processAllFeeds() run, in start order
    handlers,   \* one record per 'failed' event delivered, in delivery order
    started,    \* startParserQueue() has been called (worker running)
    drainable   \* the queue has emitted 'drained' and it is not yet delivered

vars == <<store, queue, passes, handlers, started, drainable>>

(***************************************************************************)
(* Bounds of the model.                                                    *)
(***************************************************************************)
MaxPasses == 2      \* processAllFeeds() runs started in one behaviour
MaxFailed == 1      \* 'failed' events delivered in one behaviour

(***************************************************************************)
(* Values.                                                                 *)
(***************************************************************************)
Null == [kind |-> "null"]

Urls == {"u1", "u2"}

\* An id no feed ever gets: the store holds at most one feed per URL.
GoneId == Cardinality(Urls) + 1

Ids == 1..GoneId

Source(u) == [kind |-> "source", url |-> u, title |-> "new"]

User(flagged, feeds) == [isFlagged |-> flagged, feeds |-> feeds]

\* The directory responses a pass may receive (res.body of an answer): one
\* user with two sources of one URL; a flagged user, a user without feeds
\* and a user with one source of another URL.
Bodies ==
    { <<User(FALSE, <<Source("u1"), Source("u1")>>)>>,
      <<User(TRUE, <<Source("u1")>>), User(FALSE, <<>>), User(FALSE, <<Source("u2")>>)>> }

\* What `await fetch(...)` can produce: a thrown error or a response.
Responses ==
    {[threw |-> TRUE, status |-> 0, body |-> <<>>]}
    \cup {[threw |-> FALSE, status |-> s, body |-> b] : s \in {200, 500}, b \in Bodies}

\* The value of `res` while the fetch is pending.
NoResponse == [threw |-> FALSE, status |-> 0, body |-> <<>>]

\* A feed persisted by an earlier run of the service, with cache info.
OldFeed ==
    [kind |-> "feed", id |-> 1, url |-> "u1", title |-> "old", etag |-> "W1",
     valid |-> TRUE, reason |-> ""]

InitialStores == {<<>>, <<OldFeed>>}

(***************************************************************************)
(* The feed store (./data/feed).                                           *)
(***************************************************************************)
\* The first of the records of s at the positions hits, or null.
First(s, hits) ==
    IF hits = {} THEN Null
    ELSE s[CHOOSE i \in hits : \A j \in hits : i <= j]

\* Feed.byUrl(url): the feed with this URL, or null.
ByUrl(s, url) == First(s, {i \in DOMAIN s : s[i].url = url})

\* Feed.byId(id): the feed with this id, or null.
ById(s, id) == First(s, {i \in DOMAIN s : s[i].id = id})

\* Feed.all(): every persisted feed.
All(s) == s

\* A store that accepts every create.
CreateNeverRejects(s, feedData) == FALSE

\* Feed.create(feedData) is rejected with DuplicateUrl when the URL is stored.
CreateRejects(s, feedData) == ByUrl(s, feedData.url) # Null

\* The id the store assigns to the next feed it creates.
NewId(s) == Len(s) + 1

\* The store after Feed.create(feedData) succeeded.
Create(s, feedData) ==
    Append(s, [kind |-> "feed", id |-> NewId(s), url |-> feedData.url,
               title |-> feedData.title, etag |-> "", valid |-> TRUE,
               reason |-> ""])

\* The store after feed.setInvalid(reason) on the feed with this id.
SetInvalid(s, id, why) ==
    [i \in DOMAIN s |->
        IF s[i].id = id THEN [s[i] EXCEPT !.valid = FALSE, !.reason = why]
        ELSE s[i]]

(***************************************************************************)
(* The job queue (./feed/queue).                                           *)
(***************************************************************************)
\* Jobs are keyed by feed id: the queue is the set of ids with a waiting job.
EmptyQueue == {}

\* feedQueue.addFeed({ id }).
AddFeed(q, id) == q \cup {id}

TakeJob(q, id) == q \ {id}

IsEmpty(q) == q = {}

\* A job left in the durable queue whose feed is gone from the store.
InitialQueues == {EmptyQueue, AddFeed(EmptyQueue, GoneId)}

(***************************************************************************)
(* updateFeed, processFeeds, processAllFeeds.                              *)
(***************************************************************************)
\* updateFeed without the else branch: nothing is ever created.
AlwaysExisting(existingFeed) == TRUE

\* updateFeed without the test: every source is created.
NeverExisting(existingFeed) == FALSE

\* `if (existingFeed)`: the lookup by URL found a feed.
HasExisting(existingFeed) == existingFeed # Null

\* updateFeed overwriting the known feed with the discovered data.
PreferDiscovered(existingFeed, feedData) ==
    [existingFeed EXCEPT !.title = feedData.title, !.etag = ""]

\* `currentFeed = existingFeed`: what updateFeed returns for a known URL.
PreferExisting(existingFeed, feedData) == existingFeed

\* processAllFeeds without the status test.
StatusIgnored(status) == TRUE

\* `res.status === 200`.
StatusOk(status) == status = 200

\* `(user) => (!user.isFlagged ? user.feeds : null)`, as flatMap flattens it:
\* an array contributes its elements, any other value contributes itself.
FlatMapUser(user) == IF ~user.isFlagged THEN user.feeds ELSE <<Null>>

\* `res.body.flatMap(...)`.
FlatMapFeeds(body) ==
    LET F[n \in 0..Len(body)] ==
            IF n = 0 THEN <<>> ELSE F[n - 1] \o FlatMapUser(body[n])
    IN  F[Len(body)]

\* The source an entry of `[...all, ...userFeeds]` stands for: a persisted
\* Feed is passed to updateFeed as it is, and only its url is read there.
AsFeedData(f) ==
    IF f = Null THEN Null
    ELSE [kind |-> "source", url |-> f.url, title |-> f.title]

\* The ids that updateFeed calls for this URL have already returned.
Returned(ps, url) ==
    UNION {{ps[p].tasks[i].currentFeed.id :
                i \in {j \in DOMAIN ps[p].tasks :
                    /\ ps[p].tasks[j].pc \in {"addFeed", "done"}
                    /\ ps[p].tasks[j].feed.url = url}} :
           p \in DOMAIN ps}

\* The async callback of processFeeds, called for one entry: it runs up to
\* its first await, the Feed.byUrl call; reading null.url throws at once.
NewTask(ps, from, feedData) ==
    [from |-> from, feed |-> feedData,
     pc |-> IF feedData = Null THEN "failed" ELSE "byUrl",
     error |-> IF feedData = Null THEN "TypeError" ELSE "",
     createCalled |-> FALSE, id |-> 0,
     prior |-> IF feedData = Null THEN {} ELSE Returned(ps, feedData.url),
     currentFeed |-> Null]

\* processFeeds leaving out the feeds that are marked invalid.
ProcessValidFeeds(ps, all, userFeeds) ==
    LET valid == SelectSeq(all, LAMBDA f : f.valid)
    IN  [i \in 1..Len(valid) |-> NewTask(ps, "all", AsFeedData(valid[i]))]
        \o [i \in 1..Len(userFeeds) |-> NewTask(ps, "user", userFeeds[i])]

\* `feeds.map(async (feed) => ...)` over `[...all, ...userFeeds]`.
ProcessFeeds(ps, all, userFeeds) ==
    [i \in 1..Len(all) |-> NewTask(ps, "all", AsFeedData(all[i]))]
    \o [i \in 1..Len(userFeeds) |-> NewTask(ps, "user", userFeeds[i])]

\* Promise.all over the tasks, awaited inside the try of processAllFeeds: it
\* rejects with the first rejection (caught and logged, line 77) and resolves
\* when every task has resolved.  Either way processAllFeeds returns; the
\* tasks still pending go on by themselves.
Settle(pass) ==
    IF pass.pc # "running" THEN pass
    ELSE IF \E i \in DOMAIN pass.tasks : pass.tasks[i].pc = "failed"
        THEN [pass EXCEPT !.pc = "returned", !.logged = "Error queuing feeds"]
    ELSE IF \A i \in DOMAIN pass.tasks : pass.tasks[i].pc = "done"
        THEN [pass EXCEPT !.pc = "returned"]
    ELSE pass

\* loadFeedsIntoQueue that starts nothing.
LoadNothing(ps, trigger) == ps

\* loadFeedsIntoQueue(): processAllFeeds() is called and runs up to its first
\* await, the directory fetch.
LoadFeedsIntoQueue(ps, trigger) ==
    Append(ps, [trigger |-> trigger, pc |-> "fetch", res |-> NoResponse,
                logged |-> "", userFeeds |-> <<>>, atStart |-> <<>>,
                tasks |-> <<>>])

Init ==
    /\ store \in InitialStores
    /\ queue \in InitialQueues
    /\ passes = <<>>
    /\ handlers = <<>>
    /\ started = FALSE
    /\ drainable = FALSE

\* startParserQueue(): load the feeds, start the worker.
StartParserQueue ==
    /\ ~started
    /\ Len(passes) < MaxPasses
    /\ passes' = LoadFeedsIntoQueue(passes, "start")
    /\ started' = TRUE
    /\ UNCHANGED <<store, queue, handlers, drainable>>

\* The queue's 'drained' event is delivered: loadFeedsIntoQueue runs.
Drained ==
    /\ drainable
    /\ Len(passes) < MaxPasses
    /\ passes' = LoadFeedsIntoQueue(passes, "drained")
    /\ drainable' = FALSE
    /\ UNCHANGED <<store, queue, handlers, started>>

\* `await fetch(...)` returns in pass p: a throw is caught and logged, a
\* status other than 200 skips the body of the if, a 200 flattens the users'
\* feeds and calls Feed.all().
FetchReturns(p, r) ==
    /\ passes[p].pc = "fetch"
    /\ passes' = [passes EXCEPT ![p] =
            IF r.threw
                THEN [@ EXCEPT !.pc = "returned", !.res = r,
                               !.logged = "Error queuing feeds"]
            ELSE IF ~StatusOk(r.status)
                THEN [@ EXCEPT !.pc = "returned", !.res = r]
            ELSE [@ EXCEPT !.pc = "all", !.res = r,
                           !.userFeeds = FlatMapFeeds(r.body)]]
    /\ UNCHANGED <<store, queue, handlers, started, drainable>>

\* `await Promise.all([Feed.all(), feeds])` returns in pass p and
\* processFeeds starts one task per entry.
AllReturns(p) ==
    /\ passes[p].pc = "all"
    /\ passes' = [passes EXCEPT ![p] =
            Settle([@ EXCEPT !.pc = "running", !.atStart = All(store),
                             !.tasks = ProcessFeeds(passes, All(store), passes[p].userFeeds)])]
    /\ UNCHANGED <<store, queue, handlers, started, drainable>>

\* updateFeed saving the discovered data over the feed it found.
ByUrlRecreates(p, i) ==
    LET t == passes[p].tasks[i]
        existingFeed == ByUrl(store, t.feed.url)
        fresh == [existingFeed EXCEPT !.title = t.feed.title, !.etag = "",
                                      !.valid = TRUE, !.reason = ""]
    IN  /\ t.pc = "byUrl"
        /\ passes' = [passes EXCEPT ![p].tasks[i] =
                IF existingFeed # Null
                    THEN [@ EXCEPT !.pc = "addFeed", !.currentFeed = fresh]
                ELSE [@ EXCEPT !.pc = "create", !.createCalled = TRUE]]
        /\ store' = IF existingFeed # Null
                        THEN [k \in DOMAIN store |->
                                IF store[k].id = existingFeed.id THEN fresh ELSE store[k]]
                     ELSE store
        /\ UNCHANGED <<queue, handlers, started, drainable>>

\* Feed.byUrl returns in task i of pass p: a known feed is preferred and
\* addFeed is called with its id, an unknown one is created.
ByUrlReturns(p, i) ==
    LET t == passes[p].tasks[i]
        existingFeed == ByUrl(store, t.feed.url)
    IN  /\ t.pc = "byUrl"
        /\ passes' = [passes EXCEPT ![p].tasks[i] =
                IF HasExisting(existingFeed)
                    THEN [@ EXCEPT !.pc = "addFeed",
                                   !.currentFeed = PreferExisting(existingFeed, t.feed)]
                ELSE [@ EXCEPT !.pc = "create", !.createCalled = TRUE]]
        /\ UNCHANGED <<store, queue, handlers, started, drainable>>

\* Feed.create returns in task i of pass p: with the new id, and Feed.byId
\* is called, or with DuplicateUrl, which nothing in the task catches.
CreateReturns(p, i) ==
    LET t == passes[p].tasks[i]
    IN  /\ t.pc = "create"
        /\ IF CreateRejects(store, t.feed)
             THEN /\ passes' = [passes EXCEPT ![p] =
                        Settle([@ EXCEPT !.tasks[i].pc = "failed",
                                         !.tasks[i].error = "DuplicateUrl"])]
                  /\ store' = store
             ELSE /\ passes' = [passes EXCEPT ![p].tasks[i] =
                        [@ EXCEPT !.pc = "byId", !.id = NewId(store)]]
                  /\ store' = Create(store, t.feed)
        /\ UNCHANGED <<queue, handlers, started, drainable>>

\* Feed.byId returns in task i of pass p: updateFeed returns the feed read
\* back and addFeed is called with its id.
ByIdReturns(p, i) ==
    LET t == passes[p].tasks[i]
    IN  /\ t.pc = "byId"
        /\ passes' = [passes EXCEPT ![p].tasks[i] =
                [@ EXCEPT !.pc = "addFeed",
                          !.currentFeed = ById(store, t.id)]]
        /\ UNCHANGED <<store, queue, handlers, started, drainable>>

\* feedQueue.addFeed returns in task i of pass p: the job is in the queue.
AddFeedReturns(p, i) ==
    LET t == passes[p].tasks[i]
    IN  /\ t.pc = "addFeed"
        /\ queue' = AddFeed(queue, t.currentFeed.id)
        /\ passes' = [passes EXCEPT ![p] = Settle([@ EXCEPT !.tasks[i].pc = "done"])]
        /\ UNCHANGED <<store, handlers, started, drainable>>

(***************************************************************************)
(* invalidateFeed and the 'failed' handler.                                *)
(***************************************************************************)
\* invalidateFeed recording no reason.
EmptyReason == ""

\* The reason invalidateFeed records.
InvalidReason == "unknown reason"

\* The handler without its catch: the rejection is unhandled.
NoCatch(error) == "escaped"

\* `.catch((error) => logger.error(...))` on the handler's promise: what
\* becomes of a rejection of invalidateFeed.
CatchInvalidate(error) == "logged"

\* A handler that waits until no pass is in flight before it goes on.
InvalidateWhenIdle(h) ==
    /\ handlers[h].pc = "byId"
    /\ \A p \in DOMAIN passes : passes[p].pc = "returned"
    /\ handlers' = [handlers EXCEPT ![h].pc =
            IF ById(store, handlers[h].id) = Null THEN "logged" ELSE "setInvalid"]
    /\ UNCHANGED <<store, queue, passes, started, drainable>>

\* Feed.byId returns in handler h: feed.setInvalid is called on the feed;
\* on null the call throws a TypeError and the handler's catch takes it.
InvalidateByIdReturns(h) ==
    LET feed == ById(store, handlers[h].id)
    IN  /\ handlers[h].pc = "byId"
        /\ handlers' = [handlers EXCEPT ![h].pc =
                IF feed = Null THEN CatchInvalidate("TypeError") ELSE "setInvalid"]
        /\ UNCHANGED <<store, queue, passes, started, drainable>>

\* A handler that puts the failed feed back into the queue.
SetInvalidAndRetry(h) ==
    /\ handlers[h].pc = "setInvalid"
    /\ store' = SetInvalid(store, handlers[h].id, "unknown reason")
    /\ queue' = queue \cup {handlers[h].id}
    /\ handlers' = [handlers EXCEPT ![h].pc = "done"]
    /\ UNCHANGED <<passes, started, drainable>>

\* feed.setInvalid returns in handler h: the feed is invalid in the store.
SetInvalidReturns(h) ==
    /\ handlers[h].pc = "setInvalid"
    /\ store' = SetInvalid(store, handlers[h].id, InvalidReason)
    /\ handlers' = [handlers EXCEPT ![h].pc = "done"]
    /\ UNCHANGED <<queue, passes, started, drainable>>

(***************************************************************************)
(* The worker and the queue's events (./feed/worker, ./feed/queue).        *)
(***************************************************************************)
\* 'drained' is emitted when the last outstanding job has finished.
EmitsDrained(q) == IsEmpty(q)

\* The worker finishes a job for this id.
JobCompletes(id) ==
    /\ started
    /\ id \in queue
    /\ queue' = TakeJob(queue, id)
    /\ drainable' = (drainable \/ EmitsDrained(queue'))
    /\ UNCHANGED <<store, passes, handlers>>
    /\ UNCHANGED started

\* The worker fails a job for this id: 'failed' is emitted and the handler
\* calls invalidateFeed(job.data.id), which runs up to its Feed.byId call.
JobFails(id) ==
    /\ started
    /\ id \in queue
    /\ Len(handlers) < MaxFailed
    /\ queue' = TakeJob(queue, id)
    /\ drainable' = (drainable \/ EmitsDrained(queue'))
    /\ handlers' = Append(handlers,
            [id |-> id, pc |-> "byId", existed |-> ById(store, id) # Null])
    /\ UNCHANGED <<store, passes, started>>

Next ==
    \/ StartParserQueue
    \/ Drained
    \/ \E p \in DOMAIN passes, r \in Responses : FetchReturns(p, r)
    \/ \E p \in DOMAIN passes : AllReturns(p)
    \/ \E p \in DOMAIN passes : \E i \in DOMAIN passes[p].tasks : ByUrlReturns(p, i)
    \/ \E p \in DOMAIN passes : \E i \in DOMAIN passes[p].tasks : CreateReturns(p, i)
    \/ \E p \in DOMAIN passes : \E i \in DOMAIN passes[p].tasks : ByIdReturns(p, i)
    \/ \E p \in DOMAIN passes : \E i \in DOMAIN passes[p].tasks : AddFeedReturns(p, i)
    \/ \E h \in DOMAIN handlers : InvalidateByIdReturns(h)
    \/ \E h \in DOMAIN handlers : SetInvalidReturns(h)
    \/ \E id \in Ids : JobCompletes(id)
    \/ \E id \in Ids : JobFails(id)

Spec == Init /\ [][Next]_vars

\* The event loop runs every continuation whose awaited call has returned,
\* and the store answers the calls of invalidateFeed.
HandlerStep(h) ==
    /\ h \in DOMAIN handlers
    /\ InvalidateByIdReturns(h) \/ SetInvalidReturns(h)

FairSpec == Spec /\ \A h \in 1..MaxFailed : WF_vars(HandlerStep(h))

(***************************************************************************)
(* The properties.                                                         *)
(***************************************************************************)
Tasks(p) == passes[p].tasks

TaskIds(p) == DOMAIN passes[p].tasks

\* processAllFeeds() has not returned yet in pass p.
Running(p) == passes[p].pc # "returned"

\* The directory fetch of pass p failed: it threw or answered another status.
FetchFailed(p) ==
    /\ passes[p].pc # "fetch"
    /\ passes[p].res.threw \/ passes[p].res.status # 200

\* Pass p completed successfully: every task resolved, nothing was caught.
Successful(p) ==
    /\ passes[p].pc = "returned"
    /\ ~FetchFailed(p)
    /\ passes[p].logged = ""

\* updateFeed has returned in the task, and addFeed was called with the feed.
Resolved(t) == t.pc \in {"addFeed", "done"}

\* The task is through: its job is enqueued, or it was rejected.
Settled(t) == t.pc \in {"done", "failed"}

\* The persisted feeds of this URL.
Stored(url) == {k \in DOMAIN store : store[k].url = url}

\* C1: at most one pass is Running at any time; the steps of two passes
\* never interleave.
C1_OnePassRunning ==
    Cardinality({p \in DOMAIN passes : Running(p)}) <= 1

\* C2: after a pass that completed successfully, the number of addFeed calls
\* of the pass equals the number of distinct Feed ids among the feeds
\* persisted at its start and the feeds its sources resolved to.
C2_EnqueuedOncePerId ==
    \A p \in DOMAIN passes :
        Successful(p) =>
            Len(Tasks(p)) = Cardinality({Tasks(p)[i].currentFeed.id : i \in TaskIds(p)})

\* C3: the store holds at most one Feed record per URL, in every reachable
\* state.
C3_OneFeedPerUrl ==
    \A i, j \in DOMAIN store : store[i].url = store[j].url => i = j

\* Two tasks of one pass found the URL unknown and both called create.
C3_Witness ==
    \E p \in DOMAIN passes : \E i, j \in TaskIds(p) :
        /\ i # j
        /\ Tasks(p)[i].createCalled /\ Tasks(p)[i].pc = "done"
        /\ Tasks(p)[j].createCalled /\ Tasks(p)[j].pc = "failed"
        /\ Tasks(p)[i].feed.url = Tasks(p)[j].feed.url

\* C4: two discovered sources of one pass that share a URL not persisted at
\* the start of the pass are both passed to addFeed, with the same Feed id.
C4_SameUrlSameId ==
    \A p \in DOMAIN passes : \A i, j \in TaskIds(p) :
        (/\ i # j
         /\ Tasks(p)[i].from = "user" /\ Tasks(p)[j].from = "user"
         /\ Tasks(p)[i].feed # Null /\ Tasks(p)[j].feed # Null
         /\ Settled(Tasks(p)[i]) /\ Settled(Tasks(p)[j])
         /\ Tasks(p)[i].feed.url = Tasks(p)[j].feed.url
         /\ ByUrl(passes[p].atStart, Tasks(p)[i].feed.url) = Null)
        => /\ Tasks(p)[i].pc = "done" /\ Tasks(p)[j].pc = "done"
           /\ Tasks(p)[i].currentFeed.id = Tasks(p)[j].currentFeed.id

\* C5: an updateFeed call made after another call for the same URL has
\* returned returns a Feed with the same id and calls no create, and the
\* store has exactly one record for that URL.
C5_IdempotentPerUrl ==
    \A p \in DOMAIN passes : \A i \in TaskIds(p) :
        LET t == Tasks(p)[i] IN
        (t.feed # Null /\ t.prior # {} /\ t.pc # "byUrl") =>
            /\ ~t.createCalled
            /\ Resolved(t)
            /\ t.prior = {t.currentFeed.id}
            /\ Cardinality(Stored(t.feed.url)) = 1

\* A source was reconciled after the feed an earlier pass created for its
\* URL had been returned.
C5_Witness ==
    \E p \in DOMAIN passes : \E i \in TaskIds(p) :
        /\ Tasks(p)[i].from = "user"
        /\ Tasks(p)[i].feed # Null
        /\ Tasks(p)[i].prior # {}
        /\ Tasks(p)[i].pc = "done"
        /\ Tasks(p)[i].currentFeed.title = Tasks(p)[i].feed.title

\* C6: when a Feed is persisted for the source's URL, updateFeed returns
\* that record as it is and writes nothing to the store.
C6_PersistedPreferred ==
    [][\A p \in DOMAIN passes : \A i \in TaskIds(p) :
        (/\ Tasks(p)[i].pc = "byUrl"
         /\ passes'[p].tasks[i].pc # "byUrl"
         /\ ByUrl(store, Tasks(p)[i].feed.url) # Null)
        => /\ store' = store
           /\ passes'[p].tasks[i].pc = "addFeed"
           /\ ~passes'[p].tasks[i].createCalled
           /\ passes'[p].tasks[i].currentFeed = ByUrl(store, Tasks(p)[i].feed.url)]_vars

\* updateFeed returned a persisted feed with cache info for a discovered
\* source that carries another title.
C6_Witness ==
    \E p \in DOMAIN passes : \E i \in TaskIds(p) :
        /\ Tasks(p)[i].from = "user"
        /\ Resolved(Tasks(p)[i])
        /\ ~Tasks(p)[i].createCalled
        /\ Tasks(p)[i].currentFeed.etag # ""
        /\ Tasks(p)[i].currentFeed.title # Tasks(p)[i].feed.title

\* The sources of the unflagged users of a directory response, in order.
UnflaggedSources(body) ==
    LET F[n \in 0..Len(body)] ==
            IF n = 0 THEN <<>>
            ELSE IF body[n].isFlagged THEN F[n - 1]
            ELSE F[n - 1] \o body[n].feeds
    IN  F[Len(body)]

\* C7: exactly the sources of the unflagged users enter reconciliation, and
\* nothing at all for a flagged user.
C7_OnlyUnflaggedSources ==
    \A p \in DOMAIN passes :
        passes[p].pc \in {"running", "returned"} /\ ~FetchFailed(p) =>
            /\ passes[p].userFeeds = UnflaggedSources(passes[p].res.body)
            /\ {i \in TaskIds(p) : Tasks(p)[i].from = "user"}
                 = {Len(passes[p].atStart) + k :
                        k \in 1..Len(UnflaggedSources(passes[p].res.body))}

\* The feed the 'failed' event of handler h refers to is invalid, with the
\* reason 'unknown reason'.
Invalidated(h) ==
    LET feed == ById(store, handlers[h].id) IN
    /\ feed # Null
    /\ ~feed.valid
    /\ feed.reason # ""
    /\ feed.reason = "unknown reason"

C9_MissingFeedDropped ==
    [][\A h \in DOMAIN handlers :
        /\ (handlers[h].pc = "byId" /\ handlers'[h].pc # "byId"
                /\ ById(store, handlers[h].id) = Null)
            => /\ handlers'[h].pc = "logged"
               /\ store' = store
               /\ queue' = queue
               /\ passes' = passes
               /\ Len(handlers') = Len(handlers)
        /\ handlers[h].pc = "logged"
            => handlers'[h].pc = "logged"]_vars

\* The handler of a 'failed' event for a missing feed has logged the error.
C9_Witness ==
    \E h \in DOMAIN handlers :
        /\ ~handlers[h].existed
        /\ handlers[h].pc = "logged"
        /\ store # <<>>

\* C10: a pass whose directory fetch failed makes no addFeed call and no
\* call to the store: it starts no task and has returned.
C10_FetchFailureNoEffect ==
    \A p \in DOMAIN passes :
        FetchFailed(p) =>
            /\ passes[p].pc = "returned"
            /\ passes[p].tasks = <<>>
            /\ passes[p].userFeeds = <<>>

\* One pass returned on a thrown fetch and another on a status 500, while
\* the store holds a feed.
C10_Witness ==
    \E p, q \in DOMAIN passes :
        /\ FetchFailed(p) /\ passes[p].res.threw
        /\ FetchFailed(q) /\ passes[q].res.status = 500
        /\ store # <<>>

\* Every pass started so far has returned: the controller is Idle.
Idle == \A p \in DOMAIN passes : ~Running(p)

\* C11: a 'drained' event delivered while the controller is Idle starts
\* exactly one new pass, which begins with its directory fetch.
C11_DrainedStartsOnePass ==
    [][(drainable /\ ~drainable' /\ Idle) =>
        /\ Len(passes') = Len(passes) + 1
        /\ \A p \in DOMAIN passes : passes'[p] = passes[p]
        /\ passes'[Len(passes')].trigger = "drained"
        /\ passes'[Len(passes')].pc = "fetch"]_vars

\* A pass started by 'drained' is at its fetch, and the pass before it has
\* returned with every task through.
C11_Witness ==
    /\ Len(passes) = 2
    /\ passes[1].pc = "returned"
    /\ passes[1].tasks # <<>>
    /\ \A i \in TaskIds(1) : Settled(Tasks(1)[i])
    /\ passes[2].trigger = "drained"
    /\ passes[2].pc = "fetch"
    /\ ~drainable

\* Pass p was aborted by a failure of one of its operations.
Aborted(p) ==
    /\ passes[p].pc = "returned"
    /\ \E i \in TaskIds(p) : Tasks(p)[i].pc = "failed"

\* C12: once an operation of a pass has failed and the pass is aborted, no
\* further addFeed call is made for that pass.
C12_NoAddFeedAfterFailure ==
    [][\A p \in DOMAIN passes :
        Aborted(p) =>
            \A i \in TaskIds(p) :
                passes'[p].tasks[i].pc = "addFeed" => Tasks(p)[i].pc = "addFeed"]_vars

\* C13: a create rejected with DuplicateUrl is treated as "already exists":
\* the task goes on to enqueue the existing feed and the pass is not aborted.
C13_DuplicateUrlTolerated ==
    \A p \in DOMAIN passes : \A i \in TaskIds(p) :
        Tasks(p)[i].error = "DuplicateUrl" =>
            /\ Tasks(p)[i].pc # "failed"
            /\ ~Aborted(p)

\* C14: the cycle self-heals: after a pass that aborted, with the
\* controller Idle, something is still to happen that leads to the next
\* trigger; the system is never at rest for good before its next pass.
C14_SelfHeals ==
    (/\ Idle
     /\ Len(passes) < MaxPasses
     /\ \E p \in DOMAIN passes : FetchFailed(p) \/ Aborted(p))
    => ENABLED Next

\* C15: a pass that fails because the directory is unavailable has logged
\* the failure when it returns.
C15_DirectoryFailureLogged ==
    \A p \in DOMAIN passes :
        FetchFailed(p) /\ passes[p].pc = "returned" => passes[p].logged # ""

\* A continuation of task i of pass p.
TaskStep(p, i) ==
    \/ ByUrlReturns(p, i)
    \/ CreateReturns(p, i)
    \/ ByIdReturns(p, i)
    \/ AddFeedReturns(p, i)

\* C16: a handler of a 'failed' event can take its next step whatever the
\* passes are doing, and a pass or task in flight can take its next step
\* whatever the handlers are doing.
C16_HandlersAndPassesIndependent ==
    /\ \A h \in DOMAIN handlers :
            handlers[h].pc \in {"byId", "setInvalid"} => ENABLED HandlerStep(h)
    /\ \A p \in DOMAIN passes :
            /\ passes[p].pc = "fetch" => ENABLED (\E r \in Responses : FetchReturns(p, r))
            /\ passes[p].pc = "all" => ENABLED AllReturns(p)
            /\ \A i \in TaskIds(p) :
                    Tasks(p)[i].pc \in {"byUrl", "create", "byId", "addFeed"}
                        => ENABLED TaskStep(p, i)

\* The feed of a job the only pass enqueued was invalidated while that pass
\* is still in flight.
C16_Witness ==
    /\ Len(passes) = 1
    /\ passes[1].pc = "running"
    /\ \E h \in DOMAIN handlers :
            handlers[h].existed /\ handlers[h].pc = "done" /\ Invalidated(h)

\* C17: a step of the handler of a 'failed' event for feed X changes, in
\* the store, only the validity flag and the reason of X; it enqueues no job
\* and starts no pass.  A pass is started only by startParserQueue and by
\* the delivery of 'drained'.
C17_HandlerChangesOnlyItsFeed ==
    [][/\ \A h \in DOMAIN handlers :
            handlers'[h] # handlers[h] =>
                /\ queue' = queue
                /\ passes' = passes
                /\ Len(handlers') = Len(handlers)
                /\ DOMAIN store' = DOMAIN store
                /\ \A k \in DOMAIN store :
                        IF store[k].id = handlers[h].id
                            THEN store'[k] = [store[k] EXCEPT
                                                !.valid = store'[k].valid,
                                                !.reason = store'[k].reason]
                        ELSE store'[k] = store[k]
       /\ Len(passes') > Len(passes) =>
            \/ ~started /\ started'
            \/ drainable /\ ~drainable']_vars

\* A 'failed' event was handled to its end while the store holds another,
\* valid feed.
C17_Witness ==
    \E h \in DOMAIN handlers :
        /\ handlers[h].pc = "done"
        /\ Invalidated(h)
        /\ \E k \in DOMAIN store :
                store[k].id # handlers[h].id /\ store[k].valid /\ store[k].etag # ""

\* C18: no step removes a Feed record or changes its id or URL, and no step
\* makes an invalid feed valid again.
C18_StoreMonotone ==
    [][/\ Len(store') >= Len(store)
       /\ \A k \in DOMAIN store :
            /\ store'[k].id = store[k].id
            /\ store'[k].url = store[k].url
            /\ ~store[k].valid => ~store'[k].valid]_vars

\* A pass looked up a feed after it was marked invalid, and it is still
\* invalid.
C18_Witness ==
    \E p \in DOMAIN passes : \E i \in TaskIds(p) :
        /\ Tasks(p)[i].pc = "done"
        /\ ~Tasks(p)[i].currentFeed.valid
        /\ ~ById(store, Tasks(p)[i].currentFeed.id).valid

\* C19: addFeed is called for a task only with the feed its own updateFeed
\* returned, a feed that is in the store: the one found by URL, or the one
\* created and read back by id.  Every job of the queue put there by a pass
\* is for a stored feed.
C19_EnqueuedFeedExists ==
    /\ \A p \in DOMAIN passes : \A i \in TaskIds(p) :
            LET t == Tasks(p)[i] IN
            /\ Resolved(t) =>
                /\ t.currentFeed # Null
                /\ ById(store, t.currentFeed.id) # Null
                /\ ById(store, t.currentFeed.id).url = t.feed.url
                /\ t.createCalled => t.currentFeed.id = t.id
            /\ ~Resolved(t) => t.currentFeed = Null
    /\ \A id \in queue : id = GoneId \/ ById(store, id) # Null

\* A job is in the queue for a feed that its task created and read back.
C19_Witness ==
    \E p \in DOMAIN passes : \E i \in TaskIds(p) :
        /\ Tasks(p)[i].pc = "done"
        /\ Tasks(p)[i].createCalled
        /\ Tasks(p)[i].currentFeed.id \in queue

====
